---- MODULE Spec2Model ----
(***************************************************************************)
(* BitBucketService: the Bitbucket implementation of the GitProvider       *)
(* contract.  One adapter instance holds the working credential `auth`;    *)
(* callers invoke its operations concurrently.  An async operation runs    *)
(* synchronously up to its first await (the Request Layer call is issued   *)
(* there) and is resumed when the request settles.                         *)
(***************************************************************************)
EXTENDS Integers, Sequences, FiniteSets, TLC

\* Number of operation calls made on the adapter instance in one behaviour.
MaxCalls == 2
\* expires_in of a Bitbucket token response, in seconds.
ExpiresIn == 7200
\* expiresAt of the credential the adapter is constructed with.
InitialExpiresAt == 7200000

CallIds == 1..MaxCalls

\* JavaScript's undefined (a missing argument), distinct from the empty string.
Undefined == "undefined"

\* A missing-argument check that tests for undefined only.
FalsyUndefinedOnly(v) == v = Undefined

\* !v for a string argument that may be missing.
Falsy(v) == v = Undefined \/ v = ""

\* Argument values the callers pass: repositoryGroupName missing, empty or
\* given; ref omitted or given.
Groups == {Undefined, "", "ws"}
Refs == {Undefined, "dev"}
DefaultBranches == {"main"}
RepositoryName == "repo"
BranchName == "feature"
FilePath == [dir |-> "src", name |-> "index", ext |-> ".ts"]

\* Errors.
CustomError(message) == [type |-> "CustomError", message |-> message]
BitbucketNotFoundError == [type |-> "BitbucketNotFoundError", message |-> "not found"]
HttpError == [type |-> "HttpError", message |-> "request failed"]
NotImplementedError == [type |-> "NotImplementedError", message |-> "Method not implemented"]
MissingGroupError == CustomError("Missing repositoryGroupName")
MissingGroupGetFileError ==
    CustomError("Missing repositoryGroupName. repositoryGroupName is mandatory for BitBucket provider")
DirectoryError == CustomError("Path points to a directory, please provide a file path")

\* Request failures.  getBranch and getFile are declared nullable, so their
\* requests fail with the not-found signal or with another error; in the
\* other operations every failure takes the same path and one stands for all.
RequestErrors == {BitbucketNotFoundError, HttpError}
OtherErrors == {HttpError}

VARIABLES
    auth,    \* this.auth: accessToken, refreshToken, expiresAt
    calls,   \* per call: operation, arguments, position, locals, requests, promise
    issued,  \* number of token pairs the provider has issued so far
    now      \* last value Date.now() returned

vars == <<auth, calls, issued, now>>

\* A call slot before the call is made.
Idle ==
    [op |-> "idle", group |-> Undefined, ref |-> Undefined, token |-> 0,
     pc |-> "idle", gitReference |-> Undefined, fileResponse |-> [unset |-> TRUE],
     log |-> <<>>, result |-> [kind |-> "none"]]

\* Promise outcomes.
Pending == [kind |-> "pending"]
Null == [kind |-> "null"]
Value(v) == [kind |-> "value", val |-> v]
Throw(e) == [kind |-> "throw", error |-> e]

\* Events of a call's request log.
CallEv(req, ref, token) == [ev |-> "call", req |-> req, ref |-> ref, token |-> token]
ReturnEv(req, payload) == [ev |-> "return", req |-> req, payload |-> payload]
ThrowEv(req, e) == [ev |-> "throw", req |-> req, error |-> e]

\* Calls are numbered in the order they are made.
Free(c) == calls[c].pc = "idle" /\ \A d \in 1..(c - 1) : calls[d].pc # "idle"

\* The state after the constructor: the credential of the installation.
Init ==
    /\ auth = [accessToken |-> 1, refreshToken |-> 1, expiresAt |-> InitialExpiresAt]
    /\ calls = [c \in CallIds |-> Idle]
    /\ issued = 1
    /\ now = 0

\* A call that settles without awaiting anything.
Immediate(c, op, group, result) ==
    calls' = [calls EXCEPT ![c] =
        [Idle EXCEPT !.op = op, !.group = group, !.pc = "done", !.result = result]]

\* A call that issues one request with the working access token and awaits it.
Await(c, op, group, req) ==
    calls' = [calls EXCEPT ![c] =
        [Idle EXCEPT !.op = op, !.group = group, !.pc = "await", !.result = Pending,
                     !.log = <<CallEv(req, Undefined, auth.accessToken)>>]]

\* The common shape of a groupId-scoped operation with one request.
Scoped(c, op, group, req) ==
    IF Falsy(group)
    THEN Immediate(c, op, group, Throw(MissingGroupError))
    ELSE Await(c, op, group, req)

\* The awaited request of call c settles: it throws e.
Rejected(c, req, e) ==
    calls' = [calls EXCEPT ![c].pc = "done",
                           ![c].log = Append(@, ThrowEv(req, e)),
                           ![c].result = Throw(e)]

\* The awaited request of call c returns payload and the operation returns result.
Resolved(c, req, payload, result) ==
    calls' = [calls EXCEPT ![c].pc = "done",
                           ![c].log = Append(@, ReturnEv(req, payload)),
                           ![c].result = result]

Awaiting(c, op) == calls[c].op = op /\ calls[c].pc = "await"

\* Repository payloads of the provider and their canonical mapping.
RepositoryPayloads ==
    {[name |-> RepositoryName, href |-> "https://bitbucket.org/ws/repo", is_private |-> TRUE,
      full_name |-> "ws/repo", mainbranch |-> [name |-> b], accessLevel |-> a] :
        b \in DefaultBranches, a \in {"admin"}}

MapRepository(r) ==
    [name |-> r.name, url |-> r.href, private |-> r.is_private, fullName |-> r.full_name,
     admin |-> (r.accessLevel = "admin"), defaultBranch |-> r.mainbranch.name]

----
\* getRepository

GetRepository(c) ==
    /\ Free(c)
    /\ \E g \in Groups : Scoped(c, "getRepository", g, "repositoryRequest")
    /\ UNCHANGED <<auth, issued, now>>

GetRepositoryResume(c) ==
    /\ Awaiting(c, "getRepository")
    /\ \/ \E r \in RepositoryPayloads :
            Resolved(c, "repositoryRequest", r, Value(MapRepository(r)))
       \/ \E e \in OtherErrors : Rejected(c, "repositoryRequest", e)
    /\ UNCHANGED <<auth, issued, now>>

----
\* getRepositories

RepositoriesPayloads ==
    {[size |-> Len(vs), values |-> vs] :
        vs \in {<<>>} \cup {<<r>> : r \in RepositoryPayloads}}

MapRepositories(p) ==
    [repos |-> [i \in 1..Len(p.values) |-> MapRepository(p.values[i])],
     total |-> p.size, currentPage |-> "page", pageSize |-> "limit"]

GetRepositories(c) ==
    /\ Free(c)
    /\ \E g \in Groups : Scoped(c, "getRepositories", g, "repositoriesInWorkspaceRequest")
    /\ UNCHANGED <<auth, issued, now>>

GetRepositoriesResume(c) ==
    /\ Awaiting(c, "getRepositories")
    /\ \/ \E p \in RepositoriesPayloads :
            Resolved(c, "repositoriesInWorkspaceRequest", p, Value(MapRepositories(p)))
       \/ \E e \in OtherErrors : Rejected(c, "repositoriesInWorkspaceRequest", e)
    /\ UNCHANGED <<auth, issued, now>>

----
\* createRepository

\* The created repository as the provider reports it; full_name is
\* `${gitOrganization.name}/${repositoryName}`.
CreatedRepositoryPayloads ==
    {[name |-> RepositoryName, is_private |-> TRUE,
      full_name |-> <<"owner", "/", RepositoryName>>,
      mainbranch |-> [name |-> b], accessLevel |-> "admin"] : b \in DefaultBranches}

MapCreatedRepository(r) ==
    [name |-> r.name, url |-> <<"https://bitbucket.org/">> \o r.full_name,
     private |-> r.is_private, fullName |-> r.full_name,
     admin |-> (r.accessLevel = "admin"), defaultBranch |-> r.mainbranch.name]

CreateRepository(c) ==
    /\ Free(c)
    /\ \E g \in Groups : Scoped(c, "createRepository", g, "repositoryCreateRequest")
    /\ UNCHANGED <<auth, issued, now>>

CreateRepositoryResume(c) ==
    /\ Awaiting(c, "createRepository")
    /\ \/ \E r \in CreatedRepositoryPayloads :
            Resolved(c, "repositoryCreateRequest", r, Value(MapCreatedRepository(r)))
       \/ \E e \in OtherErrors : Rejected(c, "repositoryCreateRequest", e)
    /\ UNCHANGED <<auth, issued, now>>

----
\* getPullRequest

PullRequestPayload == [href |-> "https://bitbucket.org/ws/repo/pull-requests/7", id |-> 7]

PullRequestListPayloads == {[values |-> <<>>], [values |-> <<PullRequestPayload>>]}

MapPullRequest(p) == [url |-> p.href, number |-> p.id]

GetPullRequest(c) ==
    /\ Free(c)
    /\ \E g \in Groups : Scoped(c, "getPullRequest", g, "getPullRequestByBranchNameRequest")
    /\ UNCHANGED <<auth, issued, now>>

GetPullRequestResume(c) ==
    /\ Awaiting(c, "getPullRequest")
    /\ \/ \E p \in PullRequestListPayloads :
            Resolved(c, "getPullRequestByBranchNameRequest", p,
                     IF Len(p.values) > 0 THEN Value(MapPullRequest(p.values[1])) ELSE Null)
       \/ \E e \in OtherErrors : Rejected(c, "getPullRequestByBranchNameRequest", e)
    /\ UNCHANGED <<auth, issued, now>>

----
\* createPullRequest

CreatePullRequest(c) ==
    /\ Free(c)
    /\ \E g \in Groups : Scoped(c, "createPullRequest", g, "createPullRequestFromRequest")
    /\ UNCHANGED <<auth, issued, now>>

CreatePullRequestResume(c) ==
    /\ Awaiting(c, "createPullRequest")
    /\ \/ Resolved(c, "createPullRequestFromRequest", PullRequestPayload,
                   Value(MapPullRequest(PullRequestPayload)))
       \/ \E e \in OtherErrors : Rejected(c, "createPullRequestFromRequest", e)
    /\ UNCHANGED <<auth, issued, now>>

----
\* getBranch

BranchPayloads == {[name |-> BranchName, target |-> [hash |-> h]] : h \in {"c0ffee"}}

MapBranch(b) == [name |-> b.name, sha |-> b.target.hash]

GetBranch(c) ==
    /\ Free(c)
    /\ \E g \in Groups : Scoped(c, "getBranch", g, "getBranchRequest")
    /\ UNCHANGED <<auth, issued, now>>

\* A catch clause that swallows every error.
GetBranchCatchAll(e) == Null

\* The catch clause of getBranch.
GetBranchCatch(e) == IF e = BitbucketNotFoundError THEN Null ELSE Throw(e)

GetBranchResume(c) ==
    /\ Awaiting(c, "getBranch")
    /\ \/ \E b \in BranchPayloads : Resolved(c, "getBranchRequest", b, Value(MapBranch(b)))
       \/ \E e \in RequestErrors :
            calls' = [calls EXCEPT ![c].pc = "done",
                                   ![c].log = Append(@, ThrowEv("getBranchRequest", e)),
                                   ![c].result = GetBranchCatch(e)]
    /\ UNCHANGED <<auth, issued, now>>

----
\* createBranch

CreateBranch(c) ==
    /\ Free(c)
    /\ \E g \in Groups : Scoped(c, "createBranch", g, "createBranchRequest")
    /\ UNCHANGED <<auth, issued, now>>

CreateBranchResume(c) ==
    /\ Awaiting(c, "createBranch")
    /\ \/ \E b \in BranchPayloads : Resolved(c, "createBranchRequest", b, Value(MapBranch(b)))
       \/ \E e \in OtherErrors : Rejected(c, "createBranchRequest", e)
    /\ UNCHANGED <<auth, issued, now>>

----
\* getFirstCommitOnBranch

CommitPayload == [hash |-> "c0ffee"]

GetFirstCommitOnBranch(c) ==
    /\ Free(c)
    /\ \E g \in Groups : Scoped(c, "getFirstCommitOnBranch", g, "getFirstCommitRequest")
    /\ UNCHANGED <<auth, issued, now>>

GetFirstCommitOnBranchResume(c) ==
    /\ Awaiting(c, "getFirstCommitOnBranch")
    /\ \/ Resolved(c, "getFirstCommitRequest", CommitPayload, Value([sha |-> CommitPayload.hash]))
       \/ \E e \in OtherErrors : Rejected(c, "getFirstCommitRequest", e)
    /\ UNCHANGED <<auth, issued, now>>

----
\* getCloneUrl: synchronous, no request.

CloneUrl(token, group, repo) ==
    <<"https://x-token-auth:", token, "@bitbucket.org/", group, "/", repo, ".git">>

GetCloneUrl(c) ==
    /\ Free(c)
    /\ \E g \in Groups :
        Immediate(c, "getCloneUrl", g,
                  IF Falsy(g) THEN Throw(MissingGroupError)
                  ELSE Value(CloneUrl(auth.accessToken, g, RepositoryName)))
    /\ UNCHANGED <<auth, issued, now>>

----
\* createPullRequestComment

CreatePullRequestComment(c) ==
    /\ Free(c)
    /\ \E g \in Groups : Scoped(c, "createPullRequestComment", g, "createCommentOnPrRequest")
    /\ UNCHANGED <<auth, issued, now>>

CreatePullRequestCommentResume(c) ==
    /\ Awaiting(c, "createPullRequestComment")
    /\ \/ Resolved(c, "createCommentOnPrRequest", Undefined, Value(Undefined))
       \/ \E e \in OtherErrors : Rejected(c, "createCommentOnPrRequest", e)
    /\ UNCHANGED <<auth, issued, now>>

----
\* getFile

\* File metadata: a single tree entry, or the paged children of a directory.
TreeEntryPayload == [path |-> FilePath, commit |-> [href |-> "https://bitbucket.org/ws/repo/commits/c0ffee"]]
PaginatedTreeEntryPayloads == {[values |-> <<TreeEntryPayload>>]}
FileMetaPayloads == {TreeEntryPayload} \cup PaginatedTreeEntryPayloads

\* (fileResponse as PaginatedTreeEntry).values: an array, even an empty one, is truthy.
HasValues(fileResponse) == "values" \in DOMAIN fileResponse

\* File bodies as bytes and Buffer.toString("utf-8").
FileBuffers == {<<104, 105>>}
Utf8Char(b) == CASE b = 104 -> "h" [] b = 105 -> "i" [] OTHER -> "?"
Utf8ToString(buffer) == [i \in 1..Len(buffer) |-> Utf8Char(buffer[i])]

\* parse(path).name of the path module.
ParseName(path) == path.name

MapFile(fileResponse, buffer) ==
    [content |-> Utf8ToString(buffer), htmlUrl |-> fileResponse.commit.href,
     name |-> ParseName(fileResponse.path), path |-> fileResponse.path]

\* A getFile that resolves the default branch whether or not ref is given.
GetFileStartAlwaysLookup(group, ref) ==
    [Idle EXCEPT !.op = "getFile", !.group = group, !.ref = ref, !.result = Pending,
                 !.pc = "awaitRepository",
                 !.log = <<CallEv("repositoryRequest", Undefined, auth.accessToken)>>]

\* The request getFile issues first for a non-empty group: the default-branch
\* lookup when ref is missing, the metadata request otherwise.
GetFileStart(group, ref) ==
    IF Falsy(ref)
    THEN [Idle EXCEPT !.op = "getFile", !.group = group, !.ref = ref, !.result = Pending,
                      !.pc = "awaitRepository",
                      !.log = <<CallEv("repositoryRequest", Undefined, auth.accessToken)>>]
    ELSE [Idle EXCEPT !.op = "getFile", !.group = group, !.ref = ref, !.result = Pending,
                      !.pc = "awaitMeta", !.gitReference = ref,
                      !.log = <<CallEv("getFileMetaRequest", ref, auth.accessToken)>>]

GetFile(c) ==
    /\ Free(c)
    /\ \E g \in Groups, r \in Refs :
        calls' = [calls EXCEPT ![c] =
            IF Falsy(g)
            THEN [Idle EXCEPT !.op = "getFile", !.group = g, !.ref = r, !.pc = "done",
                              !.result = Throw(MissingGroupGetFileError)]
            ELSE GetFileStart(g, r)]
    /\ UNCHANGED <<auth, issued, now>>

\* this.getRepository settles: gitReference = repo.defaultBranch, then the metadata request.
GetFileRepositoryResume(c) ==
    /\ calls[c].op = "getFile"
    /\ calls[c].pc = "awaitRepository"
    /\ \/ \E r \in RepositoryPayloads :
            calls' = [calls EXCEPT
                ![c].pc = "awaitMeta",
                ![c].gitReference = MapRepository(r).defaultBranch,
                ![c].log = @ \o <<ReturnEv("repositoryRequest", r),
                                  CallEv("getFileMetaRequest", MapRepository(r).defaultBranch,
                                         auth.accessToken)>>]
       \/ \E e \in RequestErrors : Rejected(c, "repositoryRequest", e)
    /\ UNCHANGED <<auth, issued, now>>

\* getFileMetaRequest settles: the content request follows.
GetFileMetaResume(c) ==
    /\ calls[c].op = "getFile"
    /\ calls[c].pc = "awaitMeta"
    /\ \/ \E m \in FileMetaPayloads :
            calls' = [calls EXCEPT
                ![c].pc = "awaitContent",
                ![c].fileResponse = m,
                ![c].log = @ \o <<ReturnEv("getFileMetaRequest", m),
                                  CallEv("getFileRequest", calls[c].gitReference,
                                         auth.accessToken)>>]
       \/ \E e \in RequestErrors : Rejected(c, "getFileMetaRequest", e)
    /\ UNCHANGED <<auth, issued, now>>

\* What getFile does once both responses are in.
GetFileResult(fileResponse, buffer) ==
    IF HasValues(fileResponse)
    THEN Throw(DirectoryError)
    ELSE Value(MapFile(fileResponse, buffer))

\* getFileRequest settles.
GetFileContentResume(c) ==
    /\ calls[c].op = "getFile"
    /\ calls[c].pc = "awaitContent"
    /\ \/ \E b \in FileBuffers :
            Resolved(c, "getFileRequest", b, GetFileResult(calls[c].fileResponse, b))
       \/ \E e \in RequestErrors : Rejected(c, "getFileRequest", e)
    /\ UNCHANGED <<auth, issued, now>>

----
\* OAuth operations

\* Date.now(): the clock has not moved since the last reading, or has
\* advanced by a millisecond.
DateNow == {now, now + 1}

\* scopes.split(" ") on the provider's space-separated scopes.
ScopesPayload == <<"repository", " ", "pullrequest">>
SplitScopes(scopes) == SelectSeq(scopes, LAMBDA w : w # " ")

\* Token responses: the provider issues pair number n; Date.now() returned t.
TokenPayload(n) ==
    [access_token |-> n, refresh_token |-> n, scopes |-> ScopesPayload,
     token_type |-> "bearer", expires_in |-> ExpiresIn]

MapTokens(p, t) ==
    [accessToken |-> p.access_token, refreshToken |-> p.refresh_token,
     scopes |-> SplitScopes(p.scopes), tokenType |-> p.token_type,
     expiresAt |-> t + p.expires_in * 1000]

\* A call that issues a request carrying the token the caller passed.
AwaitWith(c, op, token, req) ==
    calls' = [calls EXCEPT ![c] =
        [Idle EXCEPT !.op = op, !.token = token, !.pc = "await", !.result = Pending,
                     !.log = <<CallEv(req, Undefined, token)>>]]

\* getOAuthTokens(authorizationCode): authDataRequest carries no token.
GetOAuthTokens(c) ==
    /\ Free(c)
    /\ AwaitWith(c, "getOAuthTokens", 0, "authDataRequest")
    /\ UNCHANGED <<auth, issued, now>>

\* A getOAuthTokens that stores the exchanged access token in this.auth.
GetOAuthTokensResumeStoring(c) ==
    /\ Awaiting(c, "getOAuthTokens")
    /\ \/ \E t \in DateNow :
            /\ Resolved(c, "authDataRequest", TokenPayload(issued + 1),
                        Value(MapTokens(TokenPayload(issued + 1), t)))
            /\ auth' = [auth EXCEPT !.accessToken = issued + 1]
            /\ issued' = issued + 1
            /\ now' = t
       \/ /\ \E e \in OtherErrors : Rejected(c, "authDataRequest", e)
          /\ UNCHANGED <<auth, issued, now>>

GetOAuthTokensResume(c) ==
    /\ Awaiting(c, "getOAuthTokens")
    /\ \/ \E t \in DateNow :
            /\ Resolved(c, "authDataRequest", TokenPayload(issued + 1),
                        Value(MapTokens(TokenPayload(issued + 1), t)))
            /\ issued' = issued + 1
            /\ now' = t
       \/ /\ \E e \in OtherErrors : Rejected(c, "authDataRequest", e)
          /\ UNCHANGED <<issued, now>>
    /\ UNCHANGED auth

\* refreshAccessToken(refreshToken): the caller passes a refresh token it holds.
RefreshAccessToken(c) ==
    /\ Free(c)
    /\ \E rt \in 1..issued : AwaitWith(c, "refreshAccessToken", rt, "refreshTokenRequest")
    /\ UNCHANGED <<auth, issued, now>>

\* The assignment refreshAccessToken makes to this.auth.
RefreshedAuth(old, newOAuthTokens) == [old EXCEPT !.accessToken = newOAuthTokens.access_token]

\* A refreshAccessToken that drops the working access token when the request throws.
RefreshAccessTokenResumeClearing(c) ==
    /\ Awaiting(c, "refreshAccessToken")
    /\ \/ \E t \in DateNow :
            /\ Resolved(c, "refreshTokenRequest", TokenPayload(issued + 1),
                        Value(MapTokens(TokenPayload(issued + 1), t)))
            /\ auth' = RefreshedAuth(auth, TokenPayload(issued + 1))
            /\ issued' = issued + 1
            /\ now' = t
       \/ /\ \E e \in OtherErrors : Rejected(c, "refreshTokenRequest", e)
          /\ auth' = [auth EXCEPT !.accessToken = 0]
          /\ UNCHANGED <<issued, now>>

RefreshAccessTokenResume(c) ==
    /\ Awaiting(c, "refreshAccessToken")
    /\ \/ \E t \in DateNow :
            /\ Resolved(c, "refreshTokenRequest", TokenPayload(issued + 1),
                        Value(MapTokens(TokenPayload(issued + 1), t)))
            /\ auth' = RefreshedAuth(auth, TokenPayload(issued + 1))
            /\ issued' = issued + 1
            /\ now' = t
       \/ /\ \E e \in OtherErrors : Rejected(c, "refreshTokenRequest", e)
          /\ UNCHANGED <<auth, issued, now>>

\* getCurrentOAuthUser(accessToken): the caller passes an access token it holds.
CurrentUserPayload ==
    [links |-> [avatar |-> "avatar", self |-> "self"], display_name |-> "Ada",
     username |-> "ada", uuid |-> "{u-1}"]

MapCurrentUser(u) ==
    [links |-> [avatar |-> u.links.avatar], displayName |-> u.display_name,
     username |-> u.username, uuid |-> u.uuid, useGroupingForRepositories |-> TRUE]

GetCurrentOAuthUser(c) ==
    /\ Free(c)
    /\ \E at \in 1..issued : AwaitWith(c, "getCurrentOAuthUser", at, "currentUserRequest")
    /\ UNCHANGED <<auth, issued, now>>

GetCurrentOAuthUserResume(c) ==
    /\ Awaiting(c, "getCurrentOAuthUser")
    /\ \/ Resolved(c, "currentUserRequest", CurrentUserPayload,
                   Value(MapCurrentUser(CurrentUserPayload)))
       \/ \E e \in OtherErrors : Rejected(c, "currentUserRequest", e)
    /\ UNCHANGED <<auth, issued, now>>

\* getGitGroups: the workspaces of the user of the working access token.
WorkspacesPayload ==
    [size |-> 1, page |-> 1, pagelen |-> 10, next |-> "next", previous |-> "previous",
     values |-> <<[workspace |-> [uuid |-> "{w-1}", name |-> "Workspace", slug |-> "ws"]]>>]

MapGitGroups(p) ==
    [total |-> p.size, page |-> p.page, pageSize |-> p.pagelen, next |-> p.next,
     previous |-> p.previous,
     groups |-> [i \in 1..Len(p.values) |->
                    [id |-> p.values[i].workspace.uuid, name |-> p.values[i].workspace.name,
                     slug |-> p.values[i].workspace.slug]]]

GetGitGroups(c) ==
    /\ Free(c)
    /\ AwaitWith(c, "getGitGroups", auth.accessToken, "currentUserWorkspacesRequest")
    /\ UNCHANGED <<auth, issued, now>>

GetGitGroupsResume(c) ==
    /\ Awaiting(c, "getGitGroups")
    /\ \/ Resolved(c, "currentUserWorkspacesRequest", WorkspacesPayload,
                   Value(MapGitGroups(WorkspacesPayload)))
       \/ \E e \in OtherErrors : Rejected(c, "currentUserWorkspacesRequest", e)
    /\ UNCHANGED <<auth, issued, now>>

----
\* Operations without a request

\* new Promise(executor): the promise settles only if the executor calls resolve.
NewPromise(executorResolves, v) == IF executorResolves THEN Value(v) ELSE Pending

\* deleteGitOrganization returns new Promise(() => true): the executor returns
\* true and calls neither resolve nor reject.
DeleteGitOrganization(c) ==
    /\ Free(c)
    /\ Immediate(c, "deleteGitOrganization", Undefined, NewPromise(FALSE, TRUE))
    /\ UNCHANGED <<auth, issued, now>>

GetOrganization(c) ==
    /\ Free(c)
    /\ Immediate(c, "getOrganization", Undefined, Throw(NotImplementedError))
    /\ UNCHANGED <<auth, issued, now>>

CreatePullRequestFromFiles(c) ==
    /\ Free(c)
    /\ Immediate(c, "createPullRequestFromFiles", Undefined, Throw(NotImplementedError))
    /\ UNCHANGED <<auth, issued, now>>

GetAmplicationBotIdentity(c) ==
    /\ Free(c)
    /\ Immediate(c, "getAmplicationBotIdentity", Undefined, Null)
    /\ UNCHANGED <<auth, issued, now>>

----
Next ==
    \E c \in CallIds :
        \/ GetRepository(c)
        \/ GetRepositoryResume(c)
        \/ GetRepositories(c)
        \/ GetRepositoriesResume(c)
        \/ CreateRepository(c)
        \/ CreateRepositoryResume(c)
        \/ GetPullRequest(c)
        \/ GetPullRequestResume(c)
        \/ CreatePullRequest(c)
        \/ CreatePullRequestResume(c)
        \/ GetBranch(c)
        \/ GetBranchResume(c)
        \/ CreateBranch(c)
        \/ CreateBranchResume(c)
        \/ GetFirstCommitOnBranch(c)
        \/ GetFirstCommitOnBranchResume(c)
        \/ GetCloneUrl(c)
        \/ CreatePullRequestComment(c)
        \/ CreatePullRequestCommentResume(c)
        \/ GetFile(c)
        \/ GetFileRepositoryResume(c)
        \/ GetFileMetaResume(c)
        \/ GetFileContentResume(c)
        \/ GetOAuthTokens(c)
        \/ GetOAuthTokensResume(c)
        \/ RefreshAccessToken(c)
        \/ RefreshAccessTokenResume(c)
        \/ GetCurrentOAuthUser(c)
        \/ GetCurrentOAuthUserResume(c)
        \/ GetGitGroups(c)
        \/ GetGitGroupsResume(c)
        \/ DeleteGitOrganization(c)
        \/ GetOrganization(c)
        \/ CreatePullRequestFromFiles(c)
        \/ GetAmplicationBotIdentity(c)

Spec == Init /\ [][Next]_vars

\* The continuations of call c: a request in flight eventually settles.
Resume(c) ==
    \/ GetRepositoryResume(c) \/ GetRepositoriesResume(c) \/ CreateRepositoryResume(c)
    \/ GetPullRequestResume(c) \/ CreatePullRequestResume(c) \/ GetBranchResume(c)
    \/ CreateBranchResume(c) \/ GetFirstCommitOnBranchResume(c)
    \/ CreatePullRequestCommentResume(c) \/ GetFileRepositoryResume(c)
    \/ GetFileMetaResume(c) \/ GetFileContentResume(c) \/ GetOAuthTokensResume(c)
    \/ RefreshAccessTokenResume(c) \/ GetCurrentOAuthUserResume(c) \/ GetGitGroupsResume(c)

\* The event loop runs every continuation whose request has settled, and the
\* Request Layer settles every request.
FairSpec == Spec /\ \A c \in CallIds : WF_vars(Resume(c))

\* Under FairSpec every call suspended on a request settles.
SuspendedCallsSettle ==
    \A c \in CallIds :
        (calls[c].pc \notin {"idle", "done"}) ~>
            (calls[c].pc = "done" /\ calls[c].result.kind # "pending")

----
\* Properties

\* The operations that take a repositoryGroupName.
ScopedOps ==
    {"getRepository", "getRepositories", "createRepository", "getFile", "getPullRequest",
     "createPullRequest", "getBranch", "createBranch", "getFirstCommitOnBranch",
     "getCloneUrl", "createPullRequestComment"}

\* An argument the caller omitted or passed as the empty string.
Missing(v) == v \in {Undefined, ""}

Done(c, op) == calls[c].op = op /\ calls[c].pc = "done"
LastEv(c) == calls[c].log[Len(calls[c].log)]
\* The positions of call c's log where request req is issued.
Issues(c, req) ==
    {i \in 1..Len(calls[c].log) : calls[c].log[i].ev = "call" /\ calls[c].log[i].req = req}
\* The awaited request of call c has failed with error e.
Failed(c, e) == calls[c].log # <<>> /\ LastEv(c).ev = "throw" /\ LastEv(c).error = e

\* C1: getBranch with a non-empty repositoryGroupName returns null exactly
\* when getBranchRequest throws BitbucketNotFoundError; when the request
\* returns, the result is the Branch {name, sha} of the payload; any other
\* error is rethrown unchanged.
C1_GetBranchNullIffNotFound ==
    \A c \in CallIds :
        (Done(c, "getBranch") /\ ~Missing(calls[c].group)) =>
            /\ calls[c].result = Null <=> Failed(c, BitbucketNotFoundError)
            /\ LastEv(c).ev = "return" =>
                /\ calls[c].result.kind = "value"
                /\ calls[c].result.val =
                        [name |-> LastEv(c).payload.name, sha |-> LastEv(c).payload.target.hash]
            /\ (LastEv(c).ev = "throw" /\ LastEv(c).error # BitbucketNotFoundError) =>
                calls[c].result = Throw(LastEv(c).error)

C1_Witness ==
    \E c, d \in CallIds :
        /\ Done(c, "getBranch") /\ calls[c].result = Null
        /\ Done(d, "getBranch") /\ calls[d].result = Throw(HttpError)

\* C2: a groupId-scoped operation called with a missing or empty
\* repositoryGroupName has failed with a CustomError and has issued no
\* request.
C2_MissingGroupFailsBeforeAnyRequest ==
    \A c \in CallIds :
        (calls[c].op \in ScopedOps /\ Missing(calls[c].group)) =>
            /\ calls[c].pc = "done"
            /\ calls[c].result.kind = "throw"
            /\ calls[c].result.error.type = "CustomError"
            /\ calls[c].log = <<>>

C2_Witness ==
    \E c, d \in CallIds :
        /\ Done(c, "createPullRequestComment") /\ calls[c].group = ""
        /\ Done(d, "getFile") /\ calls[d].group = Undefined
        /\ calls[c].result.kind = "throw" /\ calls[d].result.kind = "throw"

\* C3: at most one refresh request is in flight at any time.
C3_AtMostOneRefreshInFlight ==
    Cardinality({c \in CallIds : Awaiting(c, "refreshAccessToken")}) <= 1

\* C4: a getFile whose metadata request returned a directory listing ends
\* by throwing the directory validation error.
C4_DirectoryAlwaysValidationError ==
    \A c \in CallIds :
        (Done(c, "getFile") /\ HasValues(calls[c].fileResponse)) =>
            calls[c].result = Throw(DirectoryError)

\* C5: getFile with an explicit non-empty ref never issues repositoryRequest;
\* with ref omitted it issues exactly one, first, and every metadata or
\* content request is issued after that lookup returned and carries the
\* mainbranch name of its payload as the reference.
C5_DefaultBranchLookupOnlyWhenRefOmitted ==
    \A c \in CallIds :
        (calls[c].op = "getFile" /\ ~Missing(calls[c].group)) =>
            /\ ~Missing(calls[c].ref) => Issues(c, "repositoryRequest") = {}
            /\ Missing(calls[c].ref) =>
                /\ Issues(c, "repositoryRequest") = {1}
                /\ \A i \in Issues(c, "getFileMetaRequest") \cup Issues(c, "getFileRequest") :
                    /\ i > 2
                    /\ calls[c].log[2].ev = "return"
                    /\ calls[c].log[2].req = "repositoryRequest"
                    /\ calls[c].log[i].ref = calls[c].log[2].payload.mainbranch.name

C5_Witness ==
    \E c, d \in CallIds :
        /\ Done(c, "getFile") /\ calls[c].ref = Undefined /\ calls[c].result.kind = "value"
        /\ Done(d, "getFile") /\ calls[d].ref = "dev" /\ calls[d].result.kind = "value"

\* C6: a deleteGitOrganization call that has nothing left to run has
\* completed with a boolean, without a request.  (A call at "done" has no
\* continuation: a promise still pending there is never settled.)
C6_DeleteCompletesWithBoolean ==
    \A c \in CallIds :
        Done(c, "deleteGitOrganization") =>
            /\ calls[c].result.kind = "value"
            /\ calls[c].result.val \in BOOLEAN
            /\ calls[c].log = <<>>

\* The same as a liveness property, for FairSpec: the promise of every
\* deleteGitOrganization call is eventually fulfilled with a boolean.
DeleteGitOrganizationSettles ==
    \A c \in CallIds :
        (calls[c].op = "deleteGitOrganization") ~>
            /\ calls[c].op = "deleteGitOrganization"
            /\ calls[c].result.kind = "value"
            /\ calls[c].result.val \in BOOLEAN

\* C7: getFile with a non-empty repositoryGroupName returns null exactly when
\* the metadata or content request throws BitbucketNotFoundError.
C7_GetFileNullIffNotFound ==
    \A c \in CallIds :
        (Done(c, "getFile") /\ ~Missing(calls[c].group)) =>
            (calls[c].result = Null <=>
                /\ Failed(c, BitbucketNotFoundError)
                /\ LastEv(c).req \in {"getFileMetaRequest", "getFileRequest"})

\* The step in which the refresh request of call c returns.
RefreshSucceeds(c) ==
    /\ Awaiting(c, "refreshAccessToken")
    /\ calls'[c].pc = "done"
    /\ calls'[c].result.kind = "value"

\* The step in which the refresh request of call c throws.
RefreshFails(c) ==
    /\ Awaiting(c, "refreshAccessToken")
    /\ calls'[c].log # calls[c].log
    /\ calls'[c].log[Len(calls[c].log) + 1].ev = "throw"

\* C8: right after a successful refresh the working credential equals the
\* returned OAuthTokens in accessToken, refreshToken and expiresAt, the
\* access token is not empty and expiresAt is later than the refresh.
C8_CredentialValidAfterRefresh ==
    [][\A c \in CallIds :
        RefreshSucceeds(c) =>
            /\ auth'.accessToken = calls'[c].result.val.accessToken
            /\ auth'.refreshToken = calls'[c].result.val.refreshToken
            /\ auth'.expiresAt = calls'[c].result.val.expiresAt
            /\ auth'.accessToken # 0
            /\ auth'.expiresAt > now']_vars

\* C9: when the refresh request throws, the call ends with that error after
\* the one request it issued and this.auth is as before.
C9_FailedRefreshSurfacesAndKeepsCredential ==
    [][\A c \in CallIds :
        RefreshFails(c) =>
            /\ calls'[c].pc = "done"
            /\ calls'[c].result = Throw(calls'[c].log[Len(calls'[c].log)].error)
            /\ Cardinality({i \in 1..Len(calls'[c].log) : calls'[c].log[i].ev = "call"}) = 1
            /\ auth' = auth]_vars

C9_Witness ==
    \E c, d \in CallIds :
        /\ Done(c, "refreshAccessToken") /\ calls[c].result.kind = "value"
        /\ Done(d, "refreshAccessToken") /\ calls[d].result = Throw(HttpError)
        /\ c < d
        /\ auth.accessToken = calls[c].result.val.accessToken

\* C10: this.auth changes only in the step in which a refresh request
\* returns; every other step of every operation leaves it as it is.
C10_OnlyRefreshChangesCredential ==
    [][auth' # auth => \E c \in CallIds : RefreshSucceeds(c)]_vars

C10_Witness ==
    \E c, d \in CallIds :
        /\ Done(c, "getOAuthTokens") /\ calls[c].result.kind = "value"
        /\ Done(d, "getCloneUrl") /\ calls[d].result.kind = "value"
        /\ auth.accessToken # calls[c].result.val.accessToken
        /\ auth = [accessToken |-> 1, refreshToken |-> 1, expiresAt |-> InitialExpiresAt]
====
